---- MODULE Spec2Model ----
(***************************************************************************)
(* Model of server.py (iOS Preview MCP server): the three tools            *)
(* build_and_screenshot, list_simulators and quick_screenshot.             *)
(*                                                                         *)
(* A Python str is a sequence of tokens (TLA+ strings).  stderr text is    *)
(* modelled character by character; paths and messages use one token per   *)
(* separator ("/", "\n", " ") and one per word or literal in between.      *)
(* The pictographs that open the tools' messages are written in ASCII:     *)
(* "(x)" for the cross mark, "(!)" for the warning sign, "*" for a bullet. *)
(* An external process call is one step: the spawn is appended to `calls`  *)
(* together with the way the call ended (it returned, timed out, raised).  *)
(***************************************************************************)
EXTENDS Integers, Sequences, FiniteSets, TLC

(* ------------------------------------------------------------------ *)
(* Bounds of the model                                                 *)
(* ------------------------------------------------------------------ *)
MaxStderrLines == 6
MaxStdoutLines == 2

(* ------------------------------------------------------------------ *)
(* Program constants                                                   *)
(* ------------------------------------------------------------------ *)
BootTimeout == 30
SettleSeconds == 2
BuildTimeout == 180
MaxErrorLines == 5
StderrTail == 1000
SearchTimeout == 10
ListTimeout == 10
CaptureTimeout == 10

(* ------------------------------------------------------------------ *)
(* str methods                                                         *)
(* ------------------------------------------------------------------ *)
Min(a, b) == IF a < b THEN a ELSE b
Max(a, b) == IF a > b THEN a ELSE b

UpperCase == <<"A","B","C","D","E","F","G","H","I","J","K","L","M",
               "N","O","P","Q","R","S","T","U","V","W","X","Y","Z">>
LowerCase == <<"a","b","c","d","e","f","g","h","i","j","k","l","m",
               "n","o","p","q","r","s","t","u","v","w","x","y","z">>

\* str.lower(), one character
LowerChar(c) ==
    IF \E i \in 1..Len(UpperCase) : UpperCase[i] = c
    THEN LowerCase[CHOOSE i \in 1..Len(UpperCase) : UpperCase[i] = c]
    ELSE c

\* str.lower()
StrLower(s) == [i \in 1..Len(s) |-> LowerChar(s[i])]

\* needle in s
StrContains(needle, s) ==
    \E i \in 0..(Len(s) - Len(needle)) : SubSeq(s, i + 1, i + Len(needle)) = needle

\* s.endswith(suffix)
EndsWith(s, suffix) ==
    /\ Len(s) >= Len(suffix)
    /\ SubSeq(s, Len(s) - Len(suffix) + 1, Len(s)) = suffix

\* s.split(sep), sep one token: '' splits to [''], a trailing sep leaves a last ''
RECURSIVE StrSplit(_, _)
StrSplit(s, sep) ==
    IF \A i \in 1..Len(s) : s[i] # sep
    THEN <<s>>
    ELSE LET k == CHOOSE i \in 1..Len(s) : s[i] = sep /\ \A j \in 1..(i - 1) : s[j] # sep
         IN  <<SubSeq(s, 1, k - 1)>> \o StrSplit(SubSeq(s, k + 1, Len(s)), sep)

\* sep.join(parts)
RECURSIVE StrJoin(_, _)
StrJoin(sep, parts) ==
    IF parts = <<>> THEN <<>>
    ELSE IF Len(parts) = 1 THEN parts[1]
    ELSE parts[1] \o <<sep>> \o StrJoin(sep, Tail(parts))

Whitespace == {" ", "\n", "\t"}

\* s.strip()
StrStrip(s) ==
    LET keep == {i \in 1..Len(s) : s[i] \notin Whitespace}
    IN  IF keep = {} THEN <<>>
        ELSE LET lo == CHOOSE i \in keep : \A j \in keep : i <= j
                 hi == CHOOSE i \in keep : \A j \in keep : j <= i
             IN  SubSeq(s, lo, hi)

\* seq[:n]
SliceFirst(seq, n) == SubSeq(seq, 1, Min(Len(seq), n))

\* seq[-n:]
SliceLast(seq, n) == SubSeq(seq, Max(1, Len(seq) - n + 1), Len(seq))

\* str(int)
IntStr(n) == <<ToString(n)>>

(* ------------------------------------------------------------------ *)
(* os.path (posixpath)                                                 *)
(* ------------------------------------------------------------------ *)
Cwd == <<"/", "home">>

IsAbs(p) == Len(p) > 0 /\ p[1] = "/"

\* os.path.join(a, b)
PathJoin2(a, b) ==
    IF IsAbs(b) THEN b
    ELSE IF a = <<>> \/ a[Len(a)] = "/" THEN a \o b
    ELSE a \o <<"/">> \o b

\* os.path.join(a, *parts)
PathJoin(a, parts) ==
    LET joined[i \in 0..Len(parts)] ==
            IF i = 0 THEN a ELSE PathJoin2(joined[i - 1], parts[i])
    IN  joined[Len(parts)]

\* the component stack of posixpath.normpath
RECURSIVE NormComps(_, _, _)
NormComps(comps, acc, rooted) ==
    IF comps = <<>> THEN acc
    ELSE LET c == Head(comps)
             rest == Tail(comps)
         IN  IF c = <<>> \/ c = <<".">> THEN NormComps(rest, acc, rooted)
             ELSE IF \/ c # <<"..">>
                     \/ (~rooted /\ acc = <<>>)
                     \/ (acc # <<>> /\ acc[Len(acc)] = <<"..">>)
                  THEN NormComps(rest, Append(acc, c), rooted)
             ELSE IF acc # <<>> THEN NormComps(rest, SubSeq(acc, 1, Len(acc) - 1), rooted)
             ELSE NormComps(rest, acc, rooted)

\* os.path.normpath(p)
NormPath(p) ==
    IF p = <<>> THEN <<".">>
    ELSE LET rooted == IsAbs(p)
             body == StrJoin("/", NormComps(StrSplit(p, "/"), <<>>, rooted))
             out == IF rooted THEN <<"/">> \o body ELSE body
         IN  IF out = <<>> THEN <<".">> ELSE out

\* os.path.abspath(p)
AbsPath(p) == NormPath(IF IsAbs(p) THEN p ELSE PathJoin2(Cwd, p))

\* os.path.dirname(p)
DirName(p) ==
    LET slashes == {i \in 1..Len(p) : p[i] = "/"}
        i == IF slashes = {} THEN 0 ELSE CHOOSE k \in slashes : \A j \in slashes : j <= k
        head == SubSeq(p, 1, i)
    IN  IF head # <<>> /\ \E j \in 1..Len(head) : head[j] # "/"
        THEN LET keep == {j \in 1..Len(head) : head[j] # "/"}
                 hi == CHOOSE k \in keep : \A j \in keep : j <= k
             IN  SubSeq(head, 1, hi)
        ELSE head

\* os.path.basename(p)
BaseName(p) ==
    LET slashes == {i \in 1..Len(p) : p[i] = "/"}
        i == IF slashes = {} THEN 0 ELSE CHOOSE k \in slashes : \A j \in slashes : j <= k
    IN  SubSeq(p, i + 1, Len(p))

\* os.path.exists(p) on a filesystem given as the set of its absolute paths
PathExists(files, p) == AbsPath(p) \in files

(* ------------------------------------------------------------------ *)
(* Exceptions                                                          *)
(* ------------------------------------------------------------------ *)
\* the base class of each exception class the calls of the tools can raise
BaseOf(cls) ==
    CASE cls = "TimeoutExpired" -> "SubprocessError"
      [] cls = "SubprocessError" -> "Exception"
      [] cls = "FileNotFoundError" -> "OSError"
      [] cls = "PermissionError" -> "OSError"
      [] cls = "OSError" -> "Exception"
      [] cls = "UnicodeDecodeError" -> "ValueError"
      [] cls = "ValueError" -> "Exception"
      [] cls = "Exception" -> "BaseException"
      [] OTHER -> "object"

RECURSIVE IsSubclass(_, _)
IsSubclass(cls, base) ==
    IF cls = base THEN TRUE
    ELSE IF cls = "object" THEN FALSE
    ELSE IsSubclass(BaseOf(cls), base)

\* the bug: a clause that catches only the named class itself, not its subclasses
Catches_ExactClass(handler, e) == e.type = handler

\* whether the clause `except handler:` catches the exception e
Catches(handler, e) == IsSubclass(e.type, handler)

NoException == [type |-> "None", msg |-> <<>>]

\* what subprocess.run(..., capture_output=True, text=True, timeout=t) raises
RunExceptions ==
    { [type |-> "TimeoutExpired", msg |-> <<"Command timed out">>],
      [type |-> "FileNotFoundError", msg |-> <<"[Errno 2] No such file or directory">>],
      [type |-> "UnicodeDecodeError", msg |-> <<"'utf-8' codec can't decode byte">>] }

\* what os.makedirs(dir, exist_ok=True) raises
MakedirsExceptions ==
    { [type |-> "PermissionError", msg |-> <<"[Errno 13] Permission denied">>] }

NoResult == [returncode |-> -1, stdout |-> <<>>, stderr |-> <<>>]

(* ------------------------------------------------------------------ *)
(* Requests and the world they run in                                  *)
(* ------------------------------------------------------------------ *)
RecordToggle == "SNAPSHOT_RECORD_MODE"

\* os.environ of the hosting process when a tool is entered
HostEnvironments ==
    { [v \in {"PATH"} |-> "/usr/bin"],
      [v \in {"PATH", RecordToggle} |-> IF v = "PATH" THEN "/usr/bin" ELSE "1"],
      [v \in {"PATH", RecordToggle} |-> IF v = "PATH" THEN "/usr/bin" ELSE "0"] }

DefaultDevice == <<"iPhone", " ", "15", " ", "Pro">>
DefaultSnapshotsDir == <<".", "/", "__Snapshots__">>

Devices == { DefaultDevice, <<"4F2A", "-", "9C1B">> }

DefaultRequest ==
    [ view_name |-> <<"ContentView">>,
      workspace_path |-> <<"/", "proj", "/", "App", ".xcworkspace">>,
      scheme |-> <<"App">>,
      test_target |-> <<"AppTests">>,
      device |-> DefaultDevice,
      snapshots_dir |-> DefaultSnapshotsDir,
      record |-> FALSE ]

\* a project given by a relative path, a device given by its identifier,
\* a snapshot directory other than the default
ProjectRequest ==
    [ view_name |-> <<"ProfileView">>,
      workspace_path |-> <<"App", ".xcodeproj">>,
      scheme |-> <<"App">>,
      test_target |-> <<"AppTests">>,
      device |-> <<"4F2A", "-", "9C1B">>,
      snapshots_dir |-> <<"snaps">>,
      record |-> FALSE ]

Requests ==
    { [r EXCEPT !.record = b] : r \in {DefaultRequest, ProjectRequest}, b \in BOOLEAN }

Tools == {"build_and_screenshot", "list_simulators", "quick_screenshot"}

VARIABLES
    tool,           \* the tool the client invoked
    pc,             \* the position in the tool's body
    req,            \* the tool's arguments
    os_environ,     \* os.environ of the hosting process
    entry_environ,  \* os.environ as it was when the tool was entered
    fs,             \* the absolute paths that exist on the filesystem
    calls,          \* subprocess.run and time.sleep calls made so far, in order
    boot_result,    \* local boot_result
    result,         \* local result
    search_result,  \* local search_result
    screenshot_path, \* local screenshot_path of quick_screenshot
    exc,            \* the exception raised inside the try block, if any
    retval,         \* the value the tool returned
    raised          \* TRUE when an exception left the tool

vars == << tool, pc, req, os_environ, entry_environ, fs, calls, boot_result,
           result, search_result, screenshot_path, exc, retval, raised >>

Init ==
    /\ tool \in Tools
    /\ pc = "start"
    /\ req \in CASE tool = "build_and_screenshot" -> Requests
                 [] tool = "quick_screenshot" ->
                        {[DefaultRequest EXCEPT !.device = d] : d \in Devices}
                 [] OTHER -> {DefaultRequest}
    /\ os_environ \in HostEnvironments
    /\ entry_environ = os_environ
    /\ fs \in {{}, {AbsPath(req.workspace_path)}}
    /\ tool # "build_and_screenshot" => fs = {}
    /\ calls = <<>>
    /\ boot_result = NoResult
    /\ result = NoResult
    /\ search_result = NoResult
    /\ screenshot_path = <<>>
    /\ exc = NoException
    /\ retval = <<>>
    /\ raised = FALSE

\* a subprocess.run call and the way it ended
RunCall(argv, env, timeout, ended) ==
    [fn |-> "subprocess.run", argv |-> argv, env |-> env, timeout |-> timeout, ended |-> ended]

\* a time.sleep call
SleepCall(secs) ==
    [fn |-> "time.sleep", argv |-> <<>>, env |-> os_environ, timeout |-> secs, ended |-> "returned"]

\* return v
Return(v) == retval' = v /\ pc' = "done"

(* ------------------------------------------------------------------ *)
(* build_and_screenshot                                                *)
(* ------------------------------------------------------------------ *)
NotFoundMsg(workspace_path) ==
    <<"(x) Error: Workspace/project not found at ">> \o workspace_path

\* the bug: the existence check does not return, the workflow goes on to boot
Validate_FallsThrough ==
    /\ tool = "build_and_screenshot" /\ pc = "start"
    /\ pc' = "boot"
    /\ UNCHANGED << tool, req, os_environ, entry_environ, fs, calls, boot_result,
                    result, search_result, screenshot_path, exc, retval, raised >>

\* if not os.path.exists(workspace_path): return ...
Validate ==
    /\ tool = "build_and_screenshot" /\ pc = "start"
    /\ IF ~PathExists(fs, req.workspace_path)
       THEN Return(NotFoundMsg(req.workspace_path))
       ELSE pc' = "boot" /\ UNCHANGED retval
    /\ UNCHANGED << tool, req, os_environ, entry_environ, fs, calls, boot_result,
                    result, search_result, screenshot_path, exc, raised >>

BuildFlag(workspace_path) ==
    IF EndsWith(workspace_path, <<".xcworkspace">>) THEN <<"-workspace">> ELSE <<"-project">>

BootArgv(device) == << <<"xcrun">>, <<"simctl">>, <<"boot">>, device >>

\* boot_result = subprocess.run(["xcrun", "simctl", "boot", device], ..., timeout=30)
Boot ==
    /\ tool = "build_and_screenshot" /\ pc = "boot"
    /\ \/ \E rc \in {0, 149} :
             /\ boot_result' = [returncode |-> rc, stdout |-> <<>>, stderr |-> <<>>]
             /\ calls' = Append(calls, RunCall(BootArgv(req.device), os_environ,
                                               BootTimeout, "returned"))
             /\ pc' = "settle"
             /\ UNCHANGED exc
       \/ \E e \in RunExceptions :
             /\ exc' = e
             /\ calls' = Append(calls, RunCall(BootArgv(req.device), os_environ,
                                               BootTimeout, e.type))
             /\ pc' = "except"
             /\ UNCHANGED boot_result
    /\ UNCHANGED << tool, req, os_environ, entry_environ, fs, result, search_result,
                    screenshot_path, retval, raised >>

\* the bug: the settle delay is taken whatever the boot command reported
Settle_Always ==
    /\ tool = "build_and_screenshot" /\ pc = "settle"
    /\ calls' = Append(calls, SleepCall(SettleSeconds))
    /\ pc' = "build"
    /\ UNCHANGED << tool, req, os_environ, entry_environ, fs, boot_result, result,
                    search_result, screenshot_path, exc, retval, raised >>

\* if boot_result.returncode == 0: time.sleep(2)
Settle ==
    /\ tool = "build_and_screenshot" /\ pc = "settle"
    /\ calls' = IF boot_result.returncode = 0
                THEN Append(calls, SleepCall(SettleSeconds))
                ELSE calls
    /\ pc' = "build"
    /\ UNCHANGED << tool, req, os_environ, entry_environ, fs, boot_result, result,
                    search_result, screenshot_path, exc, retval, raised >>

TestIdentifier(test_target, view_name) ==
    test_target \o <<"/ViewSnapshotTests/test">> \o view_name

DeviceSpecifier(device) ==
    IF StrContains(<<"-">>, device) THEN <<"id=">> \o device ELSE <<"name=">> \o device

BuildArgv(r) ==
    << <<"xcodebuild">>, <<"test">>,
       BuildFlag(r.workspace_path), r.workspace_path,
       <<"-scheme">>, r.scheme,
       <<"-destination">>, <<"platform=iOS Simulator,">> \o DeviceSpecifier(r.device),
       <<"-only-testing">>, TestIdentifier(r.test_target, r.view_name) >>

\* env[name] = value
EnvSet(env, name, value) ==
    [v \in DOMAIN env \cup {name} |-> IF v = name THEN value ELSE env[v]]

\* the bug: env = os.environ without .copy(), so the assignment lands in os.environ
PrepareEnv_NoCopy(environ, record) ==
    LET env == IF record THEN EnvSet(environ, RecordToggle, "1") ELSE environ
    IN  [ env |-> env, environ |-> env ]

\* env = os.environ.copy(); if record: env["SNAPSHOT_RECORD_MODE"] = "1"
\* gives the environment passed to the call and os.environ afterwards
PrepareEnv(environ, record) ==
    [ env |-> IF record THEN EnvSet(environ, RecordToggle, "1") ELSE environ,
      environ |-> environ ]

SnapshotFilename(view_name) == <<"test">> \o view_name \o <<".1.png">>

WorkspaceDir(workspace_path) == DirName(AbsPath(workspace_path))

\* the bug: the two candidates in the opposite order
PossiblePaths_Swapped(r) ==
    << PathJoin(WorkspaceDir(r.workspace_path),
                << r.test_target, r.snapshots_dir, <<"ViewSnapshotTests">>,
                   SnapshotFilename(r.view_name) >>),
       PathJoin(WorkspaceDir(r.workspace_path),
                << r.snapshots_dir, <<"ViewSnapshotTests">>, SnapshotFilename(r.view_name) >>) >>

PossiblePaths(r) ==
    << PathJoin(WorkspaceDir(r.workspace_path),
                << r.snapshots_dir, <<"ViewSnapshotTests">>, SnapshotFilename(r.view_name) >>),
       PathJoin(WorkspaceDir(r.workspace_path),
                << r.test_target, r.snapshots_dir, <<"ViewSnapshotTests">>,
                   SnapshotFilename(r.view_name) >>) >>

\* other places under the project's directory where the harness may write the image
OtherSites(r) ==
    { PathJoin(WorkspaceDir(r.workspace_path),
               << <<"Snapshots">>, SnapshotFilename(r.view_name) >>),
      PathJoin(WorkspaceDir(r.workspace_path),
               << r.test_target, <<"Views">>, <<"__Snapshots__">>,
                  SnapshotFilename(r.view_name) >>) }

\* the files a passing test run may leave behind
SnapshotSites(r) ==
    { AbsPath(PossiblePaths(r)[i]) : i \in 1..Len(PossiblePaths(r)) } \cup OtherSites(r)

\* lines xcodebuild writes to stderr
StderrLineSet ==
    { <<"e","r","r","o","r",":"," ","a">>,
      <<"x",":"," ","E","r","r","o","r",":"," ","b">>,
      <<"w","a","r","n","i","n","g",":"," ","e","r","r","o","r"," ","c">> }

StderrTexts ==
    { IF lines = <<>> THEN <<>> ELSE StrJoin("\n", lines) \o <<"\n">> :
        lines \in UNION { [1..n -> StderrLineSet] : n \in 0..MaxStderrLines } }

\* result = subprocess.run(["xcodebuild", "test", ...], ..., timeout=180, env=env)
Build ==
    /\ tool = "build_and_screenshot" /\ pc = "build"
    /\ LET prepared == PrepareEnv(os_environ, req.record)
       IN  /\ os_environ' = prepared.environ
           /\ \/ \E made \in SUBSET SnapshotSites(req) :
                    /\ result' = [returncode |-> 0, stdout |-> <<>>, stderr |-> <<>>]
                    /\ fs' = fs \cup made
                    /\ calls' = Append(calls, RunCall(BuildArgv(req), prepared.env,
                                                      BuildTimeout, "returned"))
                    /\ pc' = "classify"
                    /\ UNCHANGED exc
              \/ \E rc \in {65}, text \in StderrTexts :
                    /\ result' = [returncode |-> rc, stdout |-> <<>>, stderr |-> text]
                    /\ calls' = Append(calls, RunCall(BuildArgv(req), prepared.env,
                                                      BuildTimeout, "returned"))
                    /\ pc' = "classify"
                    /\ UNCHANGED << fs, exc >>
              \/ \E e \in RunExceptions :
                    /\ exc' = e
                    /\ calls' = Append(calls, RunCall(BuildArgv(req), prepared.env,
                                                      BuildTimeout, e.type))
                    /\ pc' = "except"
                    /\ UNCHANGED << fs, result >>
    /\ UNCHANGED << tool, req, entry_environ, boot_result, search_result,
                    screenshot_path, retval, raised >>

\* the bug: 'error:' in line, without .lower()
IsErrorLine_CaseSensitive(line) == StrContains(<<"e","r","r","o","r",":">>, line)

\* 'error:' in line.lower()
IsErrorLine(line) == StrContains(<<"e","r","r","o","r",":">>, StrLower(line))

\* error_lines = [line for line in stderr_lines if 'error:' in line.lower()]
ErrorLines(stderr) == SelectSeq(StrSplit(stderr, "\n"), IsErrorLine)

DiagnosedMsg(error_lines) ==
    <<"(x) Build/test failed:", "\n">>
        \o StrJoin("\n", SliceFirst(error_lines, MaxErrorLines))
        \o <<"\n", "\n", "Run with verbose logging to see full output.">>

UndiagnosedMsg(res) ==
    <<"(x) Build/test failed with exit code ">> \o IntStr(res.returncode)
        \o <<"\n">> \o SliceLast(res.stderr, StderrTail)

\* the bug: the exit status is not looked at, the workflow goes on to locate
Classify_IgnoresExit ==
    /\ tool = "build_and_screenshot" /\ pc = "classify"
    /\ pc' = "locate"
    /\ UNCHANGED << tool, req, os_environ, entry_environ, fs, calls, boot_result,
                    result, search_result, screenshot_path, exc, retval, raised >>

\* if result.returncode != 0: ... return the failure response
Classify ==
    /\ tool = "build_and_screenshot" /\ pc = "classify"
    /\ IF result.returncode # 0
       THEN IF ErrorLines(result.stderr) # <<>>
            THEN Return(DiagnosedMsg(ErrorLines(result.stderr)))
            ELSE Return(UndiagnosedMsg(result))
       ELSE pc' = "locate" /\ UNCHANGED retval
    /\ UNCHANGED << tool, req, os_environ, entry_environ, fs, calls, boot_result,
                    result, search_result, screenshot_path, exc, raised >>

\* the bug: the last existing candidate wins
FirstExisting_Last(files, paths) ==
    LET hits == {i \in 1..Len(paths) : PathExists(files, paths[i])}
    IN  IF hits = {} THEN 0 ELSE CHOOSE i \in hits : \A j \in hits : j <= i

\* the first index i with os.path.exists(paths[i]), or 0
FirstExisting(files, paths) ==
    LET hits == {i \in 1..Len(paths) : PathExists(files, paths[i])}
    IN  IF hits = {} THEN 0 ELSE CHOOSE i \in hits : \A j \in hits : i <= j

\* for snapshot_path in possible_paths: if os.path.exists(...): return abspath
Locate ==
    /\ tool = "build_and_screenshot" /\ pc = "locate"
    /\ LET i == FirstExisting(fs, PossiblePaths(req))
       IN  IF i # 0
           THEN Return(AbsPath(PossiblePaths(req)[i]))
           ELSE pc' = "search" /\ UNCHANGED retval
    /\ UNCHANGED << tool, req, os_environ, entry_environ, fs, calls, boot_result,
                    result, search_result, screenshot_path, exc, raised >>

SearchArgv(r) ==
    << <<"find">>, WorkspaceDir(r.workspace_path), <<"-name">>,
       SnapshotFilename(r.view_name), <<"-type">>, <<"f">> >>

\* the files find(1) can report: below the directory, with the name
Matches(files, dir, name) ==
    { p \in files : /\ BaseName(p) = name
                    /\ Len(p) > Len(dir) + 1
                    /\ SubSeq(p, 1, Len(dir) + 1) = dir \o <<"/">> }

\* the orders in which find(1) can report a set of files
Listings(S) ==
    { l \in [1..Cardinality(S) -> S] : \A i, j \in 1..Cardinality(S) : l[i] = l[j] => i = j }

\* find's stdout: one path per line
RECURSIVE FindOutput(_)
FindOutput(listing) ==
    IF listing = <<>> THEN <<>>
    ELSE Head(listing) \o <<"\n">> \o FindOutput(Tail(listing))

\* search_result = subprocess.run(["find", workspace_dir, "-name", ...], ..., timeout=10)
\* find exits 0 having reported every match, or 1 having skipped unreadable directories
Search ==
    /\ tool = "build_and_screenshot" /\ pc = "search"
    /\ LET all == Matches(fs, WorkspaceDir(req.workspace_path), SnapshotFilename(req.view_name))
       IN  \/ \E rc \in {0, 1}, seen \in SUBSET all :
                /\ rc = 0 => seen = all
                /\ \E l \in Listings(seen) :
                      search_result' = [returncode |-> rc, stdout |-> FindOutput(l),
                                        stderr |-> <<>>]
                /\ calls' = Append(calls, RunCall(SearchArgv(req), os_environ,
                                                  SearchTimeout, "returned"))
                /\ pc' = "found"
                /\ UNCHANGED exc
           \/ \E e \in RunExceptions :
                /\ exc' = e
                /\ calls' = Append(calls, RunCall(SearchArgv(req), os_environ,
                                                  SearchTimeout, e.type))
                /\ pc' = "except"
                /\ UNCHANGED search_result
    /\ UNCHANGED << tool, req, os_environ, entry_environ, fs, boot_result, result,
                    screenshot_path, retval, raised >>

ArtifactNotFoundMsg(possible_paths) ==
    <<"(!) Test passed but screenshot not found. Expected at one of:", "\n">>
        \o StrJoin("\n", possible_paths)

\* the bug: .split('\n')[-1]
FoundPath_Last(stdout) ==
    LET parts == StrSplit(StrStrip(stdout), "\n") IN parts[Len(parts)]

\* found_path = search_result.stdout.strip().split('\n')[0]
FoundPath(stdout) == StrSplit(StrStrip(stdout), "\n")[1]

\* if search_result.stdout.strip(): return abspath(found_path); return not found
Found ==
    /\ tool = "build_and_screenshot" /\ pc = "found"
    /\ IF StrStrip(search_result.stdout) # <<>>
       THEN Return(AbsPath(FoundPath(search_result.stdout)))
       ELSE Return(ArtifactNotFoundMsg(PossiblePaths(req)))
    /\ UNCHANGED << tool, req, os_environ, entry_environ, fs, calls, boot_result,
                    result, search_result, screenshot_path, exc, raised >>

TimeoutMsg ==
    <<"(x) Build timed out after 180 seconds. The build might be hanging or taking too long.">>

UnexpectedMsg(e) == <<"(x) Unexpected error: ">> \o e.msg

\* the bug: `except Exception` placed before `except subprocess.TimeoutExpired`
BsExcept_GenericFirst ==
    /\ tool = "build_and_screenshot" /\ pc = "except"
    /\ IF Catches("Exception", exc)
       THEN Return(UnexpectedMsg(exc)) /\ UNCHANGED raised
       ELSE IF Catches("TimeoutExpired", exc)
       THEN Return(TimeoutMsg) /\ UNCHANGED raised
       ELSE raised' = TRUE /\ pc' = "done" /\ UNCHANGED retval
    /\ UNCHANGED << tool, req, os_environ, entry_environ, fs, calls, boot_result,
                    result, search_result, screenshot_path, exc >>

\* except subprocess.TimeoutExpired: ... except Exception as e: ...
BsExcept ==
    /\ tool = "build_and_screenshot" /\ pc = "except"
    /\ IF Catches("TimeoutExpired", exc)
       THEN Return(TimeoutMsg) /\ UNCHANGED raised
       ELSE IF Catches("Exception", exc)
       THEN Return(UnexpectedMsg(exc)) /\ UNCHANGED raised
       ELSE raised' = TRUE /\ pc' = "done" /\ UNCHANGED retval
    /\ UNCHANGED << tool, req, os_environ, entry_environ, fs, calls, boot_result,
                    result, search_result, screenshot_path, exc >>

(* ------------------------------------------------------------------ *)
(* list_simulators                                                     *)
(* ------------------------------------------------------------------ *)
ListArgv == << <<"xcrun">>, <<"simctl">>, <<"list">>, <<"devices">>, <<"available">> >>

\* lines `simctl list devices available` writes to stdout
DeviceLineSet ==
    { <<"--", " ", "iOS", " ", "17.0", " ", "--">>,
      <<" ", " ", "iPhone", " ", "15", " ", "Pro", " ", "(Shutdown)">>,
      <<" ", " ", "iPad", " ", "Air", " ", "(Booted)">>,
      <<" ", " ", "Apple", " ", "Watch", " ", "(Shutdown)">> }

DeviceTexts ==
    { IF lines = <<>> THEN <<>> ELSE StrJoin("\n", lines) \o <<"\n">> :
        lines \in UNION { [1..n -> DeviceLineSet] : n \in 0..MaxStdoutLines } }

\* result = subprocess.run(["xcrun", "simctl", "list", "devices", "available"], ...)
LsRun ==
    /\ tool = "list_simulators" /\ pc = "start"
    /\ \/ \E text \in DeviceTexts :
             /\ result' = [returncode |-> 0, stdout |-> text, stderr |-> <<>>]
             /\ calls' = Append(calls, RunCall(ListArgv, os_environ, ListTimeout, "returned"))
             /\ pc' = "format"
             /\ UNCHANGED exc
       \/ \E rc \in {1} :
             /\ result' = [returncode |-> rc, stdout |-> <<>>,
                           stderr |-> <<"xcrun: error: unable to find utility", "\n">>]
             /\ calls' = Append(calls, RunCall(ListArgv, os_environ, ListTimeout, "returned"))
             /\ pc' = "format"
             /\ UNCHANGED exc
       \/ \E e \in RunExceptions :
             /\ exc' = e
             /\ calls' = Append(calls, RunCall(ListArgv, os_environ, ListTimeout, e.type))
             /\ pc' = "except"
             /\ UNCHANGED result
    /\ UNCHANGED << tool, req, os_environ, entry_environ, fs, boot_result, search_result,
                    screenshot_path, retval, raised >>

IsDeviceLine(line) == StrContains(<<"iPhone">>, line) \/ StrContains(<<"iPad">>, line)

\* devices = [line.strip() for line in lines if 'iPhone' in line or 'iPad' in line]
DeviceList(stdout) ==
    LET kept == SelectSeq(StrSplit(stdout, "\n"), IsDeviceLine)
    IN  [i \in 1..Len(kept) |-> StrStrip(kept[i])]

\* "\n".join(f"  * {device}" for device in devices)
Bulleted(devices) ==
    StrJoin("\n", [i \in 1..Len(devices) |-> <<"  * ">> \o devices[i]])

\* the body of list_simulators after the call returned
LsFormat ==
    /\ tool = "list_simulators" /\ pc = "format"
    /\ IF result.returncode # 0
       THEN Return(<<"(x) Failed to list simulators: ">> \o result.stderr)
       ELSE IF DeviceList(result.stdout) = <<>>
       THEN Return(<<"No iOS simulators found. Install simulators via Xcode preferences.">>)
       ELSE Return(<<"Available iOS Simulators:", "\n">> \o Bulleted(DeviceList(result.stdout)))
    /\ UNCHANGED << tool, req, os_environ, entry_environ, fs, calls, boot_result,
                    result, search_result, screenshot_path, exc, raised >>

\* except Exception as e: return f"... Error listing simulators: {str(e)}"
LsExcept ==
    /\ tool = "list_simulators" /\ pc = "except"
    /\ IF Catches("Exception", exc)
       THEN Return(<<"(x) Error listing simulators: ">> \o exc.msg) /\ UNCHANGED raised
       ELSE raised' = TRUE /\ pc' = "done" /\ UNCHANGED retval
    /\ UNCHANGED << tool, req, os_environ, entry_environ, fs, calls, boot_result,
                    result, search_result, screenshot_path, exc >>

(* ------------------------------------------------------------------ *)
(* quick_screenshot                                                    *)
(* ------------------------------------------------------------------ *)
ScreenshotsDir == <<"/", "tmp", "/", "ios_screenshots">>

\* int(time.time()) at the moments the tool may run
Timestamps == {1700000000, 1700000001}

ScreenshotPath(timestamp) ==
    PathJoin2(ScreenshotsDir, <<"simulator_">> \o IntStr(timestamp) \o <<".png">>)

CaptureArgv(device, path) ==
    << <<"xcrun">>, <<"simctl">>, <<"io">>, device, <<"screenshot">>, path >>

\* os.makedirs(screenshots_dir, exist_ok=True); screenshot_path = ...
QsPrepare ==
    /\ tool = "quick_screenshot" /\ pc = "start"
    /\ \/ \E timestamp \in Timestamps :
             /\ fs' = fs \cup {ScreenshotsDir}
             /\ screenshot_path' = ScreenshotPath(timestamp)
             /\ pc' = "capture"
             /\ UNCHANGED exc
       \/ \E e \in MakedirsExceptions :
             /\ exc' = e
             /\ pc' = "except"
             /\ UNCHANGED << fs, screenshot_path >>
    /\ UNCHANGED << tool, req, os_environ, entry_environ, calls, boot_result, result,
                    search_result, retval, raised >>

\* result = subprocess.run(["xcrun", "simctl", "io", device, "screenshot", path], ...)
QsCapture ==
    /\ tool = "quick_screenshot" /\ pc = "capture"
    /\ \/ \E written \in BOOLEAN :
             /\ result' = [returncode |-> 0, stdout |-> <<>>, stderr |-> <<>>]
             /\ fs' = IF written THEN fs \cup {screenshot_path} ELSE fs
             /\ calls' = Append(calls, RunCall(CaptureArgv(req.device, screenshot_path),
                                               os_environ, CaptureTimeout, "returned"))
             /\ pc' = "check"
             /\ UNCHANGED exc
       \/ \E rc \in {1} :
             /\ result' = [returncode |-> rc, stdout |-> <<>>,
                           stderr |-> <<"No devices are booted.", "\n">>]
             /\ calls' = Append(calls, RunCall(CaptureArgv(req.device, screenshot_path),
                                               os_environ, CaptureTimeout, "returned"))
             /\ pc' = "check"
             /\ UNCHANGED << fs, exc >>
       \/ \E e \in RunExceptions :
             /\ exc' = e
             /\ calls' = Append(calls, RunCall(CaptureArgv(req.device, screenshot_path),
                                               os_environ, CaptureTimeout, e.type))
             /\ pc' = "except"
             /\ UNCHANGED << fs, result >>
    /\ UNCHANGED << tool, req, os_environ, entry_environ, boot_result, search_result,
                    screenshot_path, retval, raised >>

\* the body of quick_screenshot after the call returned
QsCheck ==
    /\ tool = "quick_screenshot" /\ pc = "check"
    /\ IF result.returncode # 0
       THEN Return(<<"(x) Failed to capture screenshot: ">> \o result.stderr)
       ELSE IF PathExists(fs, screenshot_path)
       THEN Return(AbsPath(screenshot_path))
       ELSE Return(<<"(x) Screenshot command succeeded but file not found at ">>
                      \o screenshot_path)
    /\ UNCHANGED << tool, req, os_environ, entry_environ, fs, calls, boot_result,
                    result, search_result, screenshot_path, exc, raised >>

\* except Exception as e: return f"... Error taking screenshot: {str(e)}"
QsExcept ==
    /\ tool = "quick_screenshot" /\ pc = "except"
    /\ IF Catches("Exception", exc)
       THEN Return(<<"(x) Error taking screenshot: ">> \o exc.msg) /\ UNCHANGED raised
       ELSE raised' = TRUE /\ pc' = "done" /\ UNCHANGED retval
    /\ UNCHANGED << tool, req, os_environ, entry_environ, fs, calls, boot_result,
                    result, search_result, screenshot_path, exc >>

(* ------------------------------------------------------------------ *)
(* The server: one tool invocation, run to completion                  *)
(* ------------------------------------------------------------------ *)
Next ==
    \/ Validate
    \/ Boot
    \/ Settle
    \/ Build
    \/ Classify
    \/ Locate
    \/ Search
    \/ Found
    \/ BsExcept
    \/ LsRun
    \/ LsFormat
    \/ LsExcept
    \/ QsPrepare
    \/ QsCapture
    \/ QsCheck
    \/ QsExcept

Spec == Init /\ [][Next]_vars

(* ------------------------------------------------------------------ *)
(* Vocabulary of the properties                                        *)
(* ------------------------------------------------------------------ *)
IsSpawn(c) == c.fn = "subprocess.run"
IsSleep(c) == c.fn = "time.sleep"
IsBootCall(c) == IsSpawn(c) /\ c.argv[1] = <<"xcrun">> /\ c.argv[3] = <<"boot">>
IsBuildCall(c) == IsSpawn(c) /\ c.argv[1] = <<"xcodebuild">>
IsSearchCall(c) == IsSpawn(c) /\ c.argv[1] = <<"find">>

\* the external processes spawned so far, in order
Spawns == SelectSeq(calls, IsSpawn)

InWorkflow == tool = "build_and_screenshot"

\* the build/test call was made and ended this way
BuildEnded(how) == \E i \in 1..Len(calls) : IsBuildCall(calls[i]) /\ calls[i].ended = how
BuildExited(rc) == BuildEnded("returned") /\ result.returncode = rc
BuildFailed == BuildEnded("returned") /\ result.returncode # 0
SearchSpawned == \E i \in 1..Len(calls) : IsSearchCall(calls[i])

\* a value a tool hands back: a non-empty text
IsText(v) == Len(v) > 0 /\ \A i \in 1..Len(v) : v[i] \in STRING

\* the classes of response, told apart by how the text begins
IsTimeoutResponse(v) ==
    v = <<"(x) Build timed out after 180 seconds. The build might be hanging or taking too long.">>
IsDiagnosedResponse(v) == Len(v) > 0 /\ v[1] = "(x) Build/test failed:"
IsUndiagnosedResponse(v) == Len(v) > 0 /\ v[1] = "(x) Build/test failed with exit code "
IsUnexpectedResponse(v) == Len(v) > 0 /\ v[1] = "(x) Unexpected error: "

\* the candidate locations as the specification names them, relative to the
\* directory that holds the project
ProjectDir == DirName(AbsPath(req.workspace_path))
ArtifactName == <<"test">> \o req.view_name \o <<".1.png">>
CandidateA ==
    AbsPath(ProjectDir \o <<"/">> \o req.snapshots_dir
                \o <<"/", "ViewSnapshotTests", "/">> \o ArtifactName)
CandidateB ==
    AbsPath(ProjectDir \o <<"/">> \o req.test_target \o <<"/">> \o req.snapshots_dir
                \o <<"/", "ViewSnapshotTests", "/">> \o ArtifactName)
NoCandidateExists == CandidateA \notin fs /\ CandidateB \notin fs

(* ------------------------------------------------------------------ *)
(* C1                                                                  *)
(* ------------------------------------------------------------------ *)
\* C1: a build_and_screenshot request whose workspace_path does not exist
\* returns the "not found" validation error and spawns no external process:
\* no call of any kind is ever made and the workflow goes from its entry
\* straight to its return.
C1_MissingProjectSpawnsNothing ==
    (InWorkflow /\ AbsPath(req.workspace_path) \notin fs) =>
        /\ calls = <<>>
        /\ pc \in {"start", "done"}
        /\ ~raised
        /\ pc = "done" =>
              retval = <<"(x) Error: Workspace/project not found at ">> \o req.workspace_path

C1_Witness ==
    /\ InWorkflow /\ AbsPath(req.workspace_path) \notin fs
    /\ pc = "done" /\ calls = <<>> /\ Len(retval) > 1

(* ------------------------------------------------------------------ *)
(* C2                                                                  *)
(* ------------------------------------------------------------------ *)
\* the positions of each tool's body at which it has a step to take
Positions(t) ==
    CASE t = "build_and_screenshot" ->
            {"start", "boot", "settle", "build", "classify", "locate", "search",
             "found", "except"}
      [] t = "list_simulators" -> {"start", "format", "except"}
      [] t = "quick_screenshot" -> {"start", "capture", "check", "except"}

\* C2: each of the three tools ends by returning a text, whatever its
\* external calls do (exit zero, exit non-zero, time out, raise): no exception
\* leaves a tool, a tool that has not returned stands at a position of its
\* body from which it goes on, an exception raised inside the body is pending
\* only at the handler or after it, and what the tool returns is a non-empty
\* text.
C2_NoExceptionEscapes ==
    /\ ~raised
    /\ pc # "done" => pc \in Positions(tool)
    /\ exc # NoException => pc \in {"except", "done"}
    /\ pc = "done" => IsText(retval)

\* a call of list_simulators timed out, a call of quick_screenshot could not
\* be started, or the fallback search of the workflow failed to decode: the
\* tool returned a text all the same
C2_Witness ==
    /\ pc = "done" /\ IsText(retval) /\ ~raised
    /\ \/ tool = "list_simulators" /\ exc.type = "TimeoutExpired"
       \/ tool = "quick_screenshot" /\ exc.type = "FileNotFoundError"
       \/ InWorkflow /\ exc.type = "UnicodeDecodeError" /\ SearchSpawned

C4_BuildTimeoutResponse ==
    /\ (InWorkflow /\ BuildEnded("TimeoutExpired")) =>
          /\ pc \in {"except", "done"}
          /\ ~SearchSpawned
          /\ IsBuildCall(calls[Len(calls)])
          /\ pc = "done" =>
                /\ IsTimeoutResponse(retval)
                /\ ~IsDiagnosedResponse(retval)
                /\ ~IsUndiagnosedResponse(retval)
                /\ ~IsUnexpectedResponse(retval)
    /\ (InWorkflow /\ pc = "done" /\ BuildFailed) =>
          /\ ~IsTimeoutResponse(retval)
          /\ IsDiagnosedResponse(retval) \/ IsUndiagnosedResponse(retval)
    /\ (InWorkflow /\ pc = "done" /\ exc.type \notin {"None", "TimeoutExpired"}) =>
          /\ ~IsTimeoutResponse(retval)
          /\ IsUnexpectedResponse(retval)

C4_Witness ==
    /\ InWorkflow /\ BuildEnded("TimeoutExpired") /\ pc = "done"
    /\ IsTimeoutResponse(retval)

(* ------------------------------------------------------------------ *)
(* C5                                                                  *)
(* ------------------------------------------------------------------ *)
\* the line holds "error:" in some mix of upper and lower case
HasErrorMarker(line) ==
    LET marker == <<"e","r","r","o","r",":">>
    IN  \E k \in 0..(Len(line) - Len(marker)) :
           \A j \in 1..Len(marker) : LowerChar(line[k + j]) = marker[j]

\* the positions of the lines that hold the marker
MarkedPositions(lines) == {i \in 1..Len(lines) : HasErrorMarker(lines[i])}

\* the k-th smallest member of a set of positions
Kth(S, k) == CHOOSE i \in S : Cardinality({j \in S : j < i}) = k - 1

\* the lines a diagnosed response reports: what stands between its heading
\* and its closing sentence
ReportedLines(v) == StrSplit(SubSeq(v, 3, Len(v) - 3), "\n")

\* C5: after a build/test call that exits non-zero with n >= 1 stderr lines
\* holding "error:" (in any case), the response reports exactly the first
\* min(n, 5) of these lines, in their order in stderr, and no other line;
\* the workflow never gets to the artifact location step.
C5_FirstFiveErrorLines ==
    (InWorkflow /\ BuildFailed) =>
        LET lines == StrSplit(result.stderr, "\n")
            marked == MarkedPositions(lines)
            n == Cardinality(marked)
            m == IF n < 5 THEN n ELSE 5
            reported == ReportedLines(retval)
        IN  n >= 1 =>
              /\ pc \in {"classify", "done"}
              /\ ~SearchSpawned
              /\ pc = "done" =>
                    /\ IsDiagnosedResponse(retval)
                    /\ retval[2] = "\n"
                    /\ SubSeq(retval, Len(retval) - 2, Len(retval))
                          = <<"\n", "\n", "Run with verbose logging to see full output.">>
                    /\ Len(reported) = m
                    /\ \A k \in 1..m : reported[k] = lines[Kth(marked, k)]

\* more than five marked lines, one of them in upper case, five reported
C5_Witness ==
    /\ InWorkflow /\ BuildFailed /\ pc = "done"
    /\ LET lines == StrSplit(result.stderr, "\n")
       IN  /\ Cardinality(MarkedPositions(lines)) > 5
           /\ \E i \in MarkedPositions(lines) : lines[i] # StrLower(lines[i])
    /\ Len(ReportedLines(retval)) = 5

(* ------------------------------------------------------------------ *)
(* C6                                                                  *)
(* ------------------------------------------------------------------ *)
\* C6: after a build/test call that exits 0, when a file exists at a
\* candidate the workflow returns the first existing candidate, as an
\* absolute path that names that file: candidate (a) whenever (a) exists, also
\* when (b) exists too, and (b) only when (a) does not; and the fallback
\* search is never spawned.
C6_FirstExistingCandidate ==
    (InWorkflow /\ BuildExited(0) /\ ~NoCandidateExists) =>
        /\ pc \in {"classify", "locate", "done"}
        /\ ~SearchSpawned
        /\ ~raised
        /\ pc = "done" =>
              /\ retval \in fs
              /\ CandidateA \in fs => retval = CandidateA
              /\ CandidateA \notin fs => retval = CandidateB

\* files at both candidates, (a) returned
C6_Witness ==
    /\ InWorkflow /\ BuildExited(0) /\ pc = "done"
    /\ CandidateA \in fs /\ CandidateB \in fs /\ CandidateA # CandidateB
    /\ retval = CandidateA

(* ------------------------------------------------------------------ *)
(* C7                                                                  *)
(* ------------------------------------------------------------------ *)
\* the files with the artifact's name below the project's directory
FilesElsewhere ==
    { p \in fs : /\ SubSeq(p, 1, Len(ProjectDir) + 1) = ProjectDir \o <<"/">>
                 /\ SubSeq(p, Len(p) - Len(ArtifactName) + 1, Len(p)) = ArtifactName
                 /\ p[Len(p) - Len(ArtifactName)] = "/" }

\* the first line of a text
FirstLine(text) ==
    LET breaks == {i \in 1..Len(text) : text[i] = "\n"}
    IN  IF breaks = {} THEN text
        ELSE SubSeq(text, 1, (CHOOSE i \in breaks : \A j \in breaks : i <= j) - 1)

\* the fallback search was spawned, once, as the last call, and returned
SearchReturned ==
    /\ Len(calls) > 0
    /\ IsSearchCall(calls[Len(calls)]) /\ calls[Len(calls)].ended = "returned"
    /\ Cardinality({i \in 1..Len(calls) : IsSearchCall(calls[i])}) = 1

\* C7: after a build/test call that exits 0, with no file at either candidate
\* and a file of the artifact's name elsewhere below the project's directory,
\* the workflow spawns the fallback search (find, rooted at that directory,
\* by the artifact's name) and, the search having returned, returns the first
\* match the search reported, which is one of those files; a search that
\* exited 0 reports one.
C7_FallbackSearchFirstMatch ==
    (InWorkflow /\ BuildExited(0) /\ NoCandidateExists /\ FilesElsewhere # {}) =>
        /\ pc \in {"classify", "locate", "search", "found", "except", "done"}
        /\ pc \in {"found", "except", "done"} =>
              /\ SearchSpawned
              /\ calls[Len(calls)].argv[2] = ProjectDir
              /\ calls[Len(calls)].argv[4] = ArtifactName
        /\ (pc = "done" /\ SearchReturned) =>
              /\ search_result.returncode = 0 => search_result.stdout # <<>>
              /\ search_result.stdout # <<>> =>
                    /\ retval = FirstLine(search_result.stdout)
                    /\ retval \in FilesElsewhere

\* two files elsewhere, both reported, the first reported one returned
C7_Witness ==
    /\ InWorkflow /\ BuildExited(0) /\ NoCandidateExists /\ pc = "done" /\ SearchReturned
    /\ Cardinality(FilesElsewhere) = 2
    /\ Len(StrSplit(StrStrip(search_result.stdout), "\n")) = 2
    /\ retval = FirstLine(search_result.stdout)

(* ------------------------------------------------------------------ *)
(* C8                                                                  *)
(* ------------------------------------------------------------------ *)
\* the paths an artifact-not-found response lists after its heading
ListedPaths(v) == StrSplit(SubSeq(v, 3, Len(v)), "\n")

\* C8: after a build/test call that exits 0, with no file at either candidate
\* and a fallback search that returns without a match, the workflow returns
\* the artifact-not-found response, and that response lists exactly two
\* paths: the one checked as candidate (a), then the one checked as (b).
C8_ArtifactNotFoundListsCandidates ==
    (InWorkflow /\ BuildExited(0) /\ NoCandidateExists /\ pc = "done"
        /\ SearchReturned /\ search_result.stdout = <<>>) =>
        /\ retval[1] = "(!) Test passed but screenshot not found. Expected at one of:"
        /\ retval[2] = "\n"
        /\ Len(ListedPaths(retval)) = 2
        /\ AbsPath(ListedPaths(retval)[1]) = CandidateA
        /\ AbsPath(ListedPaths(retval)[2]) = CandidateB
        /\ BaseName(ListedPaths(retval)[1]) = ArtifactName
        /\ BaseName(ListedPaths(retval)[2]) = ArtifactName

\* no file anywhere, the search exited 0 with nothing to report
C8_Witness ==
    /\ InWorkflow /\ BuildExited(0) /\ NoCandidateExists /\ pc = "done"
    /\ SearchReturned /\ search_result.stdout = <<>> /\ search_result.returncode = 0
    /\ FilesElsewhere = {}
    /\ Len(ListedPaths(retval)) = 2

(* ------------------------------------------------------------------ *)
(* C9                                                                  *)
(* ------------------------------------------------------------------ *)
BootReturned == Len(calls) > 0 /\ IsBootCall(calls[1]) /\ calls[1].ended = "returned"

\* C9: a boot command that exits non-zero is not fatal: once the boot call
\* has returned, with whatever exit status, the workflow goes on and spawns
\* the build/test call; and the settle delay (2 seconds) is taken between
\* the two exactly when the boot command exited 0.
C9_BootNotFatalSettleOnSuccess ==
    (InWorkflow /\ BootReturned /\ pc # "settle") =>
        /\ pc # "build" => \E i \in 2..Len(calls) : IsBuildCall(calls[i])
        /\ boot_result.returncode = 0 =>
              /\ Len(calls) >= 2 /\ IsSleep(calls[2]) /\ calls[2].timeout = 2
              /\ Len(calls) >= 3 => IsBuildCall(calls[3])
        /\ boot_result.returncode # 0 =>
              /\ \A i \in 1..Len(calls) : ~IsSleep(calls[i])
              /\ Len(calls) >= 2 => IsBuildCall(calls[2])

\* boot exited non-zero, no delay, the build/test call made and the run over
C9_Witness ==
    /\ InWorkflow /\ BootReturned /\ boot_result.returncode # 0 /\ pc = "done"
    /\ Len(calls) >= 2 /\ IsBuildCall(calls[2])

(* ------------------------------------------------------------------ *)
(* C10                                                                 *)
(* ------------------------------------------------------------------ *)
\* C10: a run of build_and_screenshot spawns each of boot, build/test and
\* fallback search at most once and in that order, never again: build/test
\* only after the boot call returned, the search only after build/test
\* exited 0 with no file at either candidate; a call that times out or raises
\* is the last process of the run, and the run ends with the timeout response
\* when it timed out, whichever of the three calls it was, and with the
\* unexpected-error response carrying the exception's message otherwise.
C10_CallsOnceInOrderNoRetry ==
    InWorkflow =>
        /\ Len(Spawns) <= 3
        /\ Len(Spawns) >= 1 => IsBootCall(Spawns[1])
        /\ Len(Spawns) >= 2 => IsBuildCall(Spawns[2]) /\ Spawns[1].ended = "returned"
        /\ Len(Spawns) >= 3 =>
              /\ IsSearchCall(Spawns[3])
              /\ Spawns[2].ended = "returned"
              /\ result.returncode = 0
              /\ NoCandidateExists
        /\ \A i \in 1..Len(Spawns) :
              Spawns[i].ended # "returned" =>
                 /\ i = Len(Spawns)
                 /\ pc \in {"except", "done"}
                 /\ exc.type = Spawns[i].ended
                 /\ pc = "done" =>
                       IF Spawns[i].ended = "TimeoutExpired"
                       THEN IsTimeoutResponse(retval)
                       ELSE retval = <<"(x) Unexpected error: ">> \o exc.msg

\* the fallback search timed out: the run ends with the build's timeout response
C10_Witness ==
    /\ InWorkflow /\ pc = "done" /\ Len(Spawns) = 3
    /\ Spawns[3].ended = "TimeoutExpired"
    /\ IsTimeoutResponse(retval)

====
